---- MODULE Spec2Model ----
(***************************************************************************)
(* Model of the MLMicroserviceTemplate server (server/main.py): the        *)
(* lifecycle hooks initial_startup / on_shutdown, the thread pool, and the *)
(* background task that alternates between register_model_to_server and    *)
(* ping_server.                                                            *)
(*                                                                         *)
(* Threads.  The hosting server's thread runs the lifecycle hooks.  Every  *)
(* task submitted to the pool runs on a worker thread of its own.  A step  *)
(* of a thread is one access to shared state (a read of the global         *)
(* shutdown, the start of a network call, its completion, the end of a     *)
(* sleep); purely local work is folded into the step before it.            *)
(*                                                                         *)
(* The two background functions call each other, so a task carries its     *)
(* stack of activations; the top of the stack is the function executing.   *)
(***************************************************************************)
EXTENDS Naturals, Sequences, FiniteSets

VARIABLES
    hook,              \* position of the server thread in its lifecycle hooks
    ready_to_predict,  \* settings.ready_to_predict
    connected,         \* global connected
    shutdown,          \* global shutdown
    init_task,         \* state of the model's init(): "none", "created", "done"
    tasks,             \* the work submitted to pool, in order of submission
    log,               \* history: network calls, their outcomes, sleeps
    resp               \* the last HTTP response of /status or /predict

vars == <<hook, ready_to_predict, connected, shutdown, init_task, tasks, log, resp>>

\* time.sleep(WAIT_TIME): seconds between attempts
WAIT_TIME == 10

\* pool = ThreadPoolExecutor(10)
PoolWorkers == 10

\* Bound of the model: network calls recorded in one behaviour.
MaxCalls == 5

\* What a requests.get / requests.post followed by raise_for_status() can end in:
\* a non-error status, requests.exceptions.ConnectionError, Timeout, or the
\* HTTPError raised by raise_for_status() on a 4xx/5xx status.
Outcomes == {"ok", "conn", "timeout", "http"}

\* The exceptions the two except clauses name.
Caught == {"conn", "timeout"}

\* Settings().ready_to_predict as constructed (server/dependency.py).
Settings == FALSE

----------------------------------------------------------------------------
\* History records

CallEvents == {"post", "get"}

Event(e, t) ==
    [ev    |-> e,
     task  |-> t,
     sd    |-> shutdown,
     ready |-> ready_to_predict /\ init_task = "done",
     secs  |-> IF e = "sleep" THEN WAIT_TIME ELSE 0]

Calls(l) == Cardinality({i \in DOMAIN l : l[i].ev \in CallEvents})

\* No request to /status or /predict has been answered yet.
NoResponse ==
    [ep |-> "none", filename |-> "", ready |-> FALSE,
     code |-> 0, body |-> "", opened |-> FALSE, predicted |-> 0]

----------------------------------------------------------------------------
\* Tasks of the pool

Top(t) == tasks[t].stack[Len(tasks[t].stack)]

At(t, fn, p) ==
    /\ t \in DOMAIN tasks
    /\ tasks[t].pc = p
    /\ tasks[t].stack # <<>>
    /\ Top(t) = fn

Goto(t, p) == tasks' = [tasks EXCEPT ![t].pc = p]

Ended(t) == tasks[t].pc \in {"done", "raised"}

AllEnded == \A t \in DOMAIN tasks : Ended(t)

Init ==
    /\ hook = "init"
    /\ ready_to_predict = Settings
    /\ connected = FALSE
    /\ shutdown = FALSE
    /\ init_task = "none"
    /\ tasks = <<>>
    /\ log = <<>>
    /\ resp = NoResponse

----------------------------------------------------------------------------
\* register_model_to_server

\* Variant: the retry loop tests connected only (while not connected:).
RegLoopIgnoresShutdown(t) ==
    /\ At(t, "reg", "loop")
    /\ IF ~connected
         THEN Calls(log) < MaxCalls /\ Goto(t, "call")
         ELSE Goto(t, "exit")
    /\ UNCHANGED <<hook, ready_to_predict, connected, shutdown, init_task, log, resp>>

\* while not connected and not shutdown:
RegLoop(t) ==
    /\ At(t, "reg", "loop")
    /\ IF ~connected /\ ~shutdown
         THEN Calls(log) < MaxCalls /\ Goto(t, "call")
         ELSE Goto(t, "exit")
    /\ UNCHANGED <<hook, ready_to_predict, connected, shutdown, init_task, log, resp>>

\* r = requests.post('.../model/register', json=...) is sent
RegCall(t) ==
    /\ At(t, "reg", "call")
    /\ log' = Append(log, Event("post", t))
    /\ Goto(t, "inflight")
    /\ UNCHANGED <<hook, ready_to_predict, connected, shutdown, init_task, resp>>

\* Variant: a successful registration does not record connected = True.
RegResponseForgetsConnected(t) ==
    /\ At(t, "reg", "inflight")
    /\ \E o \in Outcomes :
         /\ log' = Append(log, Event(o, t))
         /\ IF o = "ok"
              THEN Goto(t, "loop")
              ELSE IF o \in Caught
                     THEN Goto(t, "sleep")
                     ELSE tasks' = [tasks EXCEPT ![t] = [pc |-> "raised", stack |-> <<>>]]
    /\ UNCHANGED <<hook, ready_to_predict, connected, shutdown, init_task, resp>>

\* Variant: connected = True is assigned before r.raise_for_status() and
\* before the call is known to have succeeded.
RegResponseOptimistic(t) ==
    /\ At(t, "reg", "inflight")
    /\ \E o \in Outcomes :
         /\ log' = Append(log, Event(o, t))
         /\ connected' = TRUE
         /\ IF o = "ok"
              THEN Goto(t, "loop")
              ELSE IF o \in Caught
                     THEN Goto(t, "sleep")
                     ELSE tasks' = [tasks EXCEPT ![t] = [pc |-> "raised", stack |-> <<>>]]
    /\ UNCHANGED <<hook, ready_to_predict, shutdown, init_task, resp>>

\* the call returns or raises; r.raise_for_status(); connected = True;
\* except (ConnectionError, Timeout): falls into time.sleep(WAIT_TIME)
RegResponse(t) ==
    /\ At(t, "reg", "inflight")
    /\ \E o \in Outcomes :
         /\ log' = Append(log, Event(o, t))
         /\ IF o = "ok"
              THEN connected' = TRUE /\ Goto(t, "loop")
              ELSE IF o \in Caught
                     THEN Goto(t, "sleep") /\ UNCHANGED connected
                     ELSE /\ tasks' = [tasks EXCEPT ![t] = [pc |-> "raised", stack |-> <<>>]]
                          /\ UNCHANGED connected
    /\ UNCHANGED <<hook, ready_to_predict, shutdown, init_task, resp>>

\* time.sleep(WAIT_TIME) returns; continue
RegSleep(t) ==
    /\ At(t, "reg", "sleep")
    /\ log' = Append(log, Event("sleep", t))
    /\ Goto(t, "loop")
    /\ UNCHANGED <<hook, ready_to_predict, connected, shutdown, init_task, resp>>

\* if not shutdown: ping_server(server_port, model_port, model_name)
RegExit(t) ==
    /\ At(t, "reg", "exit")
    /\ IF ~shutdown
         THEN tasks' = [tasks EXCEPT ![t] = [pc |-> "loop", stack |-> Append(@.stack, "ping")]]
         ELSE Goto(t, "ret")
    /\ UNCHANGED <<hook, ready_to_predict, connected, shutdown, init_task, log, resp>>

register_model_to_server(t) ==
    \/ RegLoop(t)
    \/ RegCall(t)
    \/ RegResponse(t)
    \/ RegSleep(t)
    \/ RegExit(t)

----------------------------------------------------------------------------
\* ping_server

\* Variant: the probe loop tests connected only (while connected:).
PingLoopIgnoresShutdown(t) ==
    /\ At(t, "ping", "loop")
    /\ IF connected
         THEN Calls(log) < MaxCalls /\ Goto(t, "call")
         ELSE Goto(t, "exit")
    /\ UNCHANGED <<hook, ready_to_predict, connected, shutdown, init_task, log, resp>>

\* while connected and not shutdown:
PingLoop(t) ==
    /\ At(t, "ping", "loop")
    /\ IF connected /\ ~shutdown
         THEN Calls(log) < MaxCalls /\ Goto(t, "call")
         ELSE Goto(t, "exit")
    /\ UNCHANGED <<hook, ready_to_predict, connected, shutdown, init_task, log, resp>>

\* r = requests.get('http://host.docker.internal:<server_port>/') is sent
PingCall(t) ==
    /\ At(t, "ping", "call")
    /\ log' = Append(log, Event("get", t))
    /\ Goto(t, "inflight")
    /\ UNCHANGED <<hook, ready_to_predict, connected, shutdown, init_task, resp>>

\* Variant: a failed probe does not record connected = False.
PingResponseKeepsConnected(t) ==
    /\ At(t, "ping", "inflight")
    /\ \E o \in Outcomes :
         /\ log' = Append(log, Event(o, t))
         /\ IF o = "ok"
              THEN Goto(t, "sleep")
              ELSE IF o \in Caught
                     THEN Goto(t, "loop")
                     ELSE tasks' = [tasks EXCEPT ![t] = [pc |-> "raised", stack |-> <<>>]]
    /\ UNCHANGED <<hook, ready_to_predict, connected, shutdown, init_task, resp>>

\* Variant: the monitor sleeps after a failed probe too (the sleep placed
\* after the try statement).
PingResponseSleepsOnFailure(t) ==
    /\ At(t, "ping", "inflight")
    /\ \E o \in Outcomes :
         /\ log' = Append(log, Event(o, t))
         /\ IF o = "ok"
              THEN Goto(t, "sleep") /\ UNCHANGED connected
              ELSE IF o \in Caught
                     THEN connected' = FALSE /\ Goto(t, "sleep")
                     ELSE /\ tasks' = [tasks EXCEPT ![t] = [pc |-> "raised", stack |-> <<>>]]
                          /\ UNCHANGED connected
    /\ UNCHANGED <<hook, ready_to_predict, shutdown, init_task, resp>>

\* Variant: the monitor does not sleep after a successful probe.
PingResponseNoSleep(t) ==
    /\ At(t, "ping", "inflight")
    /\ \E o \in Outcomes :
         /\ log' = Append(log, Event(o, t))
         /\ IF o = "ok"
              THEN Goto(t, "loop") /\ UNCHANGED connected
              ELSE IF o \in Caught
                     THEN connected' = FALSE /\ Goto(t, "loop")
                     ELSE /\ tasks' = [tasks EXCEPT ![t] = [pc |-> "raised", stack |-> <<>>]]
                          /\ UNCHANGED connected
    /\ UNCHANGED <<hook, ready_to_predict, shutdown, init_task, resp>>

\* the call returns or raises; r.raise_for_status(); then time.sleep(WAIT_TIME)
\* begins; except (ConnectionError, Timeout): connected = False
PingResponse(t) ==
    /\ At(t, "ping", "inflight")
    /\ \E o \in Outcomes :
         /\ log' = Append(log, Event(o, t))
         /\ IF o = "ok"
              THEN Goto(t, "sleep") /\ UNCHANGED connected
              ELSE IF o \in Caught
                     THEN connected' = FALSE /\ Goto(t, "loop")
                     ELSE /\ tasks' = [tasks EXCEPT ![t] = [pc |-> "raised", stack |-> <<>>]]
                          /\ UNCHANGED connected
    /\ UNCHANGED <<hook, ready_to_predict, shutdown, init_task, resp>>

\* time.sleep(WAIT_TIME) returns
PingSleep(t) ==
    /\ At(t, "ping", "sleep")
    /\ log' = Append(log, Event("sleep", t))
    /\ Goto(t, "loop")
    /\ UNCHANGED <<hook, ready_to_predict, connected, shutdown, init_task, resp>>

\* Variant: the monitor hands back to registration without testing shutdown.
PingExitAlwaysHandsBack(t) ==
    /\ At(t, "ping", "exit")
    /\ tasks' = [tasks EXCEPT ![t] = [pc |-> "loop", stack |-> Append(@.stack, "reg")]]
    /\ UNCHANGED <<hook, ready_to_predict, connected, shutdown, init_task, log, resp>>

\* if not shutdown: register_model_to_server(server_port, model_port, model_name)
PingExit(t) ==
    /\ At(t, "ping", "exit")
    /\ IF ~shutdown
         THEN tasks' = [tasks EXCEPT ![t] = [pc |-> "loop", stack |-> Append(@.stack, "reg")]]
         ELSE Goto(t, "ret")
    /\ UNCHANGED <<hook, ready_to_predict, connected, shutdown, init_task, log, resp>>

ping_server(t) ==
    \/ PingLoop(t)
    \/ PingCall(t)
    \/ PingResponse(t)
    \/ PingSleep(t)
    \/ PingExit(t)

\* An activation returns to its caller, which was at its last statement and
\* returns in turn; the task is done when the first activation has returned.
Return(t) ==
    /\ t \in DOMAIN tasks
    /\ tasks[t].pc = "ret"
    /\ LET rest == SubSeq(tasks[t].stack, 1, Len(tasks[t].stack) - 1)
       IN  tasks' = [tasks EXCEPT ![t] = [pc    |-> IF rest = <<>> THEN "done" ELSE "ret",
                                          stack |-> rest]]
    /\ UNCHANGED <<hook, ready_to_predict, connected, shutdown, init_task, log, resp>>

Worker(t) == register_model_to_server(t) \/ ping_server(t) \/ Return(t)

----------------------------------------------------------------------------
\* Lifecycle hooks

\* Variant: startup submits the monitor to the pool as well as the registration.
initial_startup_submits_both ==
    /\ hook = "init"
    /\ Len(tasks) + 1 < PoolWorkers
    /\ tasks' = tasks \o <<[pc |-> "loop", stack |-> <<"reg">>],
                           [pc |-> "loop", stack |-> <<"ping">>]>>
    /\ init_task' = "created"
    /\ hook' = "started"
    /\ UNCHANGED <<ready_to_predict, connected, shutdown, log, resp>>

\* Variant: startup marks the model ready without init() having run.
initial_startup_marks_ready ==
    /\ hook = "init"
    /\ Len(tasks) < PoolWorkers
    /\ tasks' = Append(tasks, [pc |-> "loop", stack |-> <<"reg">>])
    /\ init_task' = "created"
    /\ ready_to_predict' = TRUE
    /\ hook' = "started"
    /\ UNCHANGED <<connected, shutdown, log, resp>>

\* Variant: startup waits for the submitted registration to finish
\* (background_server_connection.result()) before it returns.
initial_startup_waits ==
    /\ hook = "init"
    /\ IF tasks = <<>>
         THEN /\ tasks' = Append(tasks, [pc |-> "loop", stack |-> <<"reg">>])
              /\ init_task' = "created"
              /\ UNCHANGED hook
         ELSE /\ AllEnded
              /\ hook' = "started"
              /\ UNCHANGED <<tasks, init_task>>
    /\ UNCHANGED <<ready_to_predict, connected, shutdown, log, resp>>

\* pool.submit(register_model_to_server, ...); BackgroundTask(init) builds a
\* task object that nothing runs; return {"result": "starting"}
initial_startup ==
    /\ hook = "init"
    /\ Len(tasks) < PoolWorkers
    /\ tasks' = Append(tasks, [pc |-> "loop", stack |-> <<"reg">>])
    /\ init_task' = "created"
    /\ hook' = "started"
    /\ UNCHANGED <<ready_to_predict, connected, shutdown, log, resp>>

\* settings.ready_to_predict = False
ShutdownReady ==
    /\ hook = "started"
    /\ ready_to_predict' = FALSE
    /\ hook' = "closing"
    /\ UNCHANGED <<connected, shutdown, init_task, tasks, log, resp>>

\* shutdown = True
ShutdownFlag ==
    /\ hook = "closing"
    /\ shutdown' = TRUE
    /\ hook' = "joining"
    /\ UNCHANGED <<ready_to_predict, connected, init_task, tasks, log, resp>>

\* pool.shutdown() waits for the submitted work to finish; return {...}
ShutdownPool ==
    /\ hook = "joining"
    /\ AllEnded
    /\ hook' = "stopped"
    /\ UNCHANGED <<ready_to_predict, connected, shutdown, init_task, tasks, log, resp>>

on_shutdown == ShutdownReady \/ ShutdownFlag \/ ShutdownPool

----------------------------------------------------------------------------
\* HTTP surface

\* Values of the filename parameter of /predict that are tried: the default "",
\* an image and a text file present under ../images/, and a name that is absent.
Filenames == {"", "cat.jpg", "notes.txt", "missing.jpg"}

\* open('../images/' + filename, 'r') succeeds; for "" the path is the
\* directory itself and open raises IsADirectoryError, an IOError.
Readable == {"cat.jpg", "notes.txt"}

\* Image.open(image_file.name) in predict succeeds
Images == {"cat.jpg"}

\* The requests are served from the end of the startup hook until the
\* shutdown hook has returned.
Serving == hook \in {"started", "closing", "joining"}

Response(ep, f, c, b, o, n) ==
    [ep |-> ep, filename |-> f, ready |-> ready_to_predict,
     code |-> c, body |-> b, opened |-> o, predicted |-> n]

\* prediction_exception_handler: JSONResponse(status_code=503, ...)
prediction_exception_handler(ep, f) == Response(ep, f, 503, "not_ready", FALSE, 0)

\* predict(image_file): Image.open raises on a file that is no image, and the
\* exception leaves the handler (an HTTP 500); else the result map is returned
predict(f) ==
    IF f \in Images
      THEN Response("predict", f, 200, "result", TRUE, 1)
      ELSE Response("predict", f, 500, "error", TRUE, 1)

\* Variant: /status answers success whatever the readiness.
check_status_always_ready ==
    /\ Serving
    /\ resp' = Response("status", "", 200, "ready", FALSE, 0)
    /\ UNCHANGED <<hook, ready_to_predict, connected, shutdown, init_task, tasks, log>>

\* GET /status: raise PredictionException() unless settings.ready_to_predict
check_status ==
    /\ Serving
    /\ resp' = IF ~ready_to_predict
                 THEN prediction_exception_handler("status", "")
                 ELSE Response("status", "", 200, "ready", FALSE, 0)
    /\ UNCHANGED <<hook, ready_to_predict, connected, shutdown, init_task, tasks, log>>

\* POST /predict: the two HTTPException objects are returned, not raised, so
\* the framework serialises them as the body of an ordinary 200 response
\* (bodies "exception_503" and "exception_400")
create_prediction ==
    /\ Serving
    /\ \E f \in Filenames :
         resp' = IF ~ready_to_predict
                   THEN Response("predict", f, 200, "exception_503", FALSE, 0)
                   ELSE IF f \notin Readable
                          THEN Response("predict", f, 200, "exception_400", FALSE, 0)
                          ELSE predict(f)
    /\ UNCHANGED <<hook, ready_to_predict, connected, shutdown, init_task, tasks, log>>

----------------------------------------------------------------------------

Next ==
    \/ initial_startup
    \/ on_shutdown
    \/ \E t \in DOMAIN tasks : Worker(t)
    \/ check_status
    \/ create_prediction

Spec == Init /\ [][Next]_vars

\* The handlers of the HTTP surface read settings.ready_to_predict as an input:
\* this specification starts the server with either value of it.
HttpInit ==
    /\ hook = "init"
    /\ ready_to_predict \in BOOLEAN
    /\ connected = FALSE
    /\ shutdown = FALSE
    /\ init_task = "none"
    /\ tasks = <<>>
    /\ log = <<>>
    /\ resp = NoResponse

HttpSpec == HttpInit /\ [][Next]_vars

\* Worker threads are scheduled, network calls and sleeps return, the server
\* runs its startup hook, and it goes on with the shutdown hook once it has
\* entered it (whether and when the server is shut down is left open).
LiveSpec ==
    /\ Init /\ [][Next]_vars
    /\ WF_vars(\E t \in DOMAIN tasks : Worker(t))
    /\ WF_vars(initial_startup)
    /\ WF_vars(ShutdownFlag \/ ShutdownPool)

----------------------------------------------------------------------------
\* Reading the history

\* The record at i is the completion of a call of kind k with a result in rs.
Completed(l, i, k, rs) ==
    i \in DOMAIN l /\ i > 1 /\ l[i].ev \in rs /\ l[i - 1].ev = k

RegOk(l, i)     == Completed(l, i, "post", {"ok"})
RegFailed(l, i) == Completed(l, i, "post", Outcomes \ {"ok"})
ProbeFailed(l, i) == Completed(l, i, "get", Outcomes \ {"ok"})

LateCalls == {i \in DOMAIN log : log[i].ev \in CallEvents /\ log[i].sd}

LateSleeps == {i \in DOMAIN log : log[i].ev = "sleep" /\ log[i].sd}

Results == {i \in DOMAIN log : log[i].ev \in Outcomes}

Last(S) == CHOOSE i \in S : \A j \in S : j <= i

Running(fn) ==
    \E t \in DOMAIN tasks :
        tasks[t].stack # <<>> /\ Top(t) = fn /\ tasks[t].pc \in {"loop", "call", "inflight", "sleep"}

----------------------------------------------------------------------------
\* C1 as stated: no registration or probe call is started in a state where
\* shutdown is already true.
C1_NoCallAfterShutdown == \A i \in DOMAIN log : log[i].ev \in CallEvents => ~log[i].sd

\* C1, amended: after shutdown is set at most one more network call is started
\* (the call of the loop iteration whose test of shutdown came before the flag
\* was set).
C1_AtMostOneLateCall == Cardinality(LateCalls) <= 1

\* A probe was started with shutdown already set, and the task has since ended
\* and the shutdown hook returned.
C1_Witness ==
    /\ \E i \in LateCalls : log[i].ev = "get"
    /\ hook = "stopped"

\* C2: connected is true iff the most recent registration or probe attempt
\* ended in a non-error HTTP status.
C2_ConnectedIffLastSucceeded ==
    Results # {} => (connected <=> log[Last(Results)].ev = "ok")

\* C3: every registration request is issued in a state where init() has
\* finished and ready_to_predict is true.
C3_RegistrationAfterInit == \A i \in DOMAIN log : log[i].ev = "post" => log[i].ready

\* C4: while shutdown is false register_model_to_server leaves its loop only
\* with connected true, and no outcome of a registration request ends the
\* background task with an exception.
C4_RegistrationRetriesForever ==
    \A t \in DOMAIN tasks :
        /\ (At(t, "reg", "exit") /\ ~shutdown) => connected
        /\ ~(tasks[t].pc = "raised" /\ Results # {} /\ RegFailed(log, Last(Results)))

\* C5: between a failed probe and any later probe there is a successful
\* registration.
C5_NoProbeUntilReregistered ==
    \A i, j \in DOMAIN log :
        (i < j /\ ProbeFailed(log, i) /\ log[j].ev = "get")
            => \E k \in (i + 1)..(j - 1) : RegOk(log, k)

\* A probe failed, a registration attempt after it failed, a later one
\* succeeded, and a probe is in flight again.
C5_Witness ==
    /\ \E t \in DOMAIN tasks : At(t, "ping", "inflight")
    /\ \E i, f, k \in DOMAIN log :
          i < f /\ f < k /\ ProbeFailed(log, i) /\ RegFailed(log, f) /\ RegOk(log, k)

\* C6: after a registration call succeeds the next network call, if any, is a
\* probe, and no registration call is issued until a probe has failed.
C6_OneRegistrationThenProbes ==
    \A i \in DOMAIN log :
        RegOk(log, i) =>
            /\ \A j \in DOMAIN log :
                  (j > i /\ log[j].ev \in CallEvents
                         /\ \A m \in (i + 1)..(j - 1) : log[m].ev \notin CallEvents)
                      => log[j].ev = "get"
            /\ \A j \in DOMAIN log :
                  (j > i /\ log[j].ev = "post")
                      => \E k \in (i + 1)..(j - 1) : ProbeFailed(log, k)

\* The first registration attempt found the coordinator unreachable, a later
\* one succeeded, and a probe has been issued after it.
C6_Witness ==
    /\ RegFailed(log, 2) /\ log[2].ev = "conn"
    /\ \E i, j \in DOMAIN log : i < j /\ RegOk(log, i) /\ log[j].ev = "get"
    /\ Cardinality({i \in DOMAIN log : RegOk(log, i)}) = 1

\* C7: the pool holds at most one background task, and the registration loop
\* and the probe loop are never both executing.
C7_LoopsMutuallyExclusive ==
    /\ Len(tasks) <= 1
    /\ ~(Running("reg") /\ Running("ping"))

\* The probe loop is executing after a hand-off from the registration loop,
\* whose activation is suspended below it.
C7_Witness ==
    /\ Running("ping")
    /\ \E t \in DOMAIN tasks : Len(tasks[t].stack) >= 2 /\ tasks[t].pc = "sleep"

\* C8 as stated: once shutdown is true, connected never changes value.
C8_ConnectedFrozenAfterShutdown == [][shutdown => connected' = connected]_vars

\* C8, amended: once shutdown is true, connected changes at most once more, and
\* only at the completion of the first network call to complete after shutdown.
C8_OneLateChange ==
    [][(shutdown /\ connected' # connected)
          => /\ \A i \in Results : ~log[i].sd
             /\ Len(log') = Len(log) + 1
             /\ log'[Len(log')].ev \in Outcomes]_vars

\* A probe failed after shutdown and demoted connected; the task then ended.
C8_Witness ==
    /\ shutdown /\ ~connected /\ AllEnded /\ tasks # <<>>
    /\ \E i \in DOMAIN log : ProbeFailed(log, i) /\ log[i].sd /\ log[i].ev \in Caught

\* Once shutdown is set no activation hands off to the other loop.
NoHandOffAfterShutdown ==
    shutdown => \A t \in DOMAIN tasks : Len(tasks'[t].stack) <= Len(tasks[t].stack)

\* C9: after shutdown is set every background task ends and the shutdown hook
\* returns; at most one sleep completes after shutdown; neither loop hands off
\* to the other after shutdown.
C9_StopsCooperatively ==
    /\ shutdown ~> (AllEnded /\ hook = "stopped")
    /\ [](Cardinality(LateSleeps) <= 1)
    /\ [][NoHandOffAfterShutdown]_vars

\* The hook has returned after a task that had handed off at least once and
\* that completed one sleep after shutdown was set.
C9_Witness ==
    /\ hook = "stopped"
    /\ LateSleeps # {}
    /\ \E i \in DOMAIN log : log[i].ev = "get"

C11_InitEventuallyRuns ==
    (hook = "started") ~> (hook # "started" \/ (init_task = "done" /\ ready_to_predict))

\* C12: initial_startup returns, and when it returns no registration request
\* has been issued, no task has ended and init() has not completed; the
\* registration attempts all come after it.
C12_StartupReturnsImmediately ==
    /\ <>(hook # "init")
    /\ [][(hook = "init" /\ hook' # "init")
             => (log' = <<>> /\ init_task' # "done" /\ tasks' # <<>> /\ ~AllEnded')]_vars
    /\ [](log # <<>> => hook # "init")

\* Startup has returned and every registration attempt made since has found
\* the coordinator unreachable: the loop is still retrying at the bound.
C12_Witness ==
    /\ hook = "started"
    /\ Calls(log) = MaxCalls
    /\ \A i \in DOMAIN log : log[i].ev \in {"post", "conn", "sleep"}
    /\ \E t \in DOMAIN tasks : At(t, "reg", "loop")

C14_PredictNotReady503 ==
    (resp.ep = "predict" /\ ~resp.ready) =>
        /\ resp.code \in 500..599 /\ resp.code = 503
        /\ ~resp.opened
        /\ resp.predicted = 0

\* C15: POST /predict with a filename that is no readable file answers with a
\* 400-class status and does not invoke predict; with a readable file and a
\* ready model it invokes predict once and a success carries predict's result.
C15_PredictMissingFile400 ==
    (resp.ep = "predict" /\ resp.ready) =>
        IF resp.filename \notin Readable
          THEN resp.code \in 400..499 /\ resp.predicted = 0
          ELSE resp.predicted = 1 /\ (resp.code = 200 => resp.body = "result")

\* The step appends one record to the history.
Logged == Len(log') = Len(log) + 1

IsSleep(l, i) == l[i].ev = "sleep"

ProbeOk(l, i) == Completed(l, i, "get", {"ok"})

\* C16: connected is false initially; it becomes true only in the step in
\* which a registration request succeeds; a successful probe, the end of a
\* sleep and the steps of the startup and shutdown hooks leave it unchanged.
C16_OnlyRegistrationConnects ==
    /\ ~connected
    /\ [][(~connected /\ connected') => (Logged /\ RegOk(log', Len(log')))]_vars
    /\ [][((Logged /\ (ProbeOk(log', Len(log')) \/ IsSleep(log', Len(log')))) \/ hook' # hook)
            => connected' = connected]_vars

\* connected is true after a successful registration, a successful probe and
\* the sleep that follows it, with the shutdown hook entered.
C16_Witness ==
    /\ connected
    /\ hook = "closing"
    /\ \E i \in DOMAIN log : ProbeOk(log, i) /\ i < Len(log) /\ IsSleep(log, i + 1)

\* C17: the record that follows a failed probe in the history, if any, is a
\* registration request (no sleep, no probe in between), and right after a
\* probe failed with a connection error or timeout connected is false.
C17_FailedProbeHandsBackAtOnce ==
    \A i \in DOMAIN log :
        ProbeFailed(log, i) =>
            /\ i < Len(log) => log[i + 1].ev = "post"
            /\ (i = Len(log) /\ log[i].ev \in Caught) => ~connected

\* A probe failed with shutdown not set and the registration request that
\* follows it has been issued.
C17_Witness ==
    \E i \in DOMAIN log :
        ProbeFailed(log, i) /\ ~log[i].sd /\ i < Len(log) /\ log[i + 1].ev = "post"

\* The sleeps recorded strictly between positions i and j of the history.
SleepsBetween(i, j) == {k \in (i + 1)..(j - 1) : log[k].ev = "sleep"}

\* C18: two calls of the same kind with no other call between them are
\* separated by exactly one sleep, of WAIT_TIME = 10 seconds.
C18_OneSleepBetweenAttempts ==
    \A i, j \in DOMAIN log :
        (/\ i < j
         /\ log[i].ev \in CallEvents
         /\ log[j].ev = log[i].ev
         /\ \A k \in (i + 1)..(j - 1) : log[k].ev \notin CallEvents)
            => /\ Cardinality(SleepsBetween(i, j)) = 1
               /\ \A k \in SleepsBetween(i, j) : log[k].secs = 10

\* Two registration requests in a row and two probes in a row have both
\* happened.
C18_Witness ==
    /\ \E i \in DOMAIN log : i + 3 <= Len(log) /\ log[i].ev = "post" /\ log[i + 3].ev = "post"
    /\ \E i \in DOMAIN log : i + 3 <= Len(log) /\ log[i].ev = "get" /\ log[i + 3].ev = "get"

\* C19: the activations of register_model_to_server and ping_server that have
\* started and not returned never number more than two (one of each).
C19_ActivationsBounded ==
    \A t \in DOMAIN tasks : Len(tasks[t].stack) <= 2

====
